---- MODULE Spec2Model ----
(***************************************************************************)
(* serde_shade_nbt: the ShadeNBT serializer (src/src/ser.rs) and the       *)
(* deserializer (src/src/de.rs) as a state machine.                        *)
(*                                                                         *)
(* A run is either to_vec(value) followed by from_slice of the bytes it    *)
(* returned, or from_slice of a byte stream supplied by the caller.  The   *)
(* traversal that serde's Serialize implementations perform is kept as a   *)
(* stack of pending calls; every method of the Serializer is one action.   *)
(***************************************************************************)
EXTENDS Integers, Sequences, FiniteSets, TLC

VARIABLES
    pc,          \* "start" | "serializing" | "encoded" | "deserializing" | "decoded"
    value,       \* the value tree handed to to_vec (NoValue before the call)
    stack,       \* pending Serialize calls of the traversal, innermost first
    output,      \* Serializer.output: the bytes in the sink
    field_info,  \* Serializer.field_info
    result,      \* what to_vec returned: "none" while running, "Ok", an Error, "panic"
    source,      \* the byte stream handed to from_slice
    input,       \* Deserializer.input: the bytes not read yet
    endianness,  \* Deserializer.endianness
    target,      \* the kinds T::deserialize still has to ask the Deserializer for
    de_result,   \* what from_slice returned: "none", "Ok", an Error, "panic"
    decoded      \* the value from_slice returned (NoValue when it returned none)

vars == <<pc, value, stack, output, field_info, result,
          source, input, endianness, target, de_result, decoded>>

----------------------------------------------------------------------------
(* Bounds of the model *)

\* longest sequence handed to the encoder
MaxElems == 3
\* most fields of a compound handed to the encoder
MaxFields == 2
\* longest tail of caller-supplied bytes after the 7th byte of a stream
MaxTail == 2

(* Program constants *)

\* u16::MAX, the largest name length u16::try_from accepts
U16Max == 65535
\* number of bytes Deserializer::new reads
HeaderLen == 7
\* i32::MAX, the largest sequence length try_into accepts
I32Max == 2147483647

----------------------------------------------------------------------------
(* Value trees: what a Serialize implementation describes to the encoder.  *)
(* v is the number of an integer kind (0/1 for bool), bytes the UTF-8      *)
(* bytes of a str or char or the content of a byte blob, kids the fields   *)
(* of a struct (name, val), the elements of a seq or the inner value of a  *)
(* newtype struct (name "").  For a seq, bytes holds the length its         *)
(* Serialize implementation passes to serialize_seq, a usize kept as four  *)
(* 16-bit limbs, least significant first.                                  *)

Val(kind, v, bytes, kids) == [kind |-> kind, v |-> v, bytes |-> bytes, kids |-> kids]

NoValue == Val("none", 0, <<>>, <<>>)

Num(kind, v) == Val(kind, v, <<>>, <<>>)
Str(bytes) == Val("str", 0, bytes, <<>>)
Char(bytes) == Val("char", 0, bytes, <<>>)
Bytes(bytes) == Val("bytes", 0, bytes, <<>>)
Unit == Val("unit", 0, <<>>, <<>>)
Kid(name, val) == [name |-> name, val |-> val]
\* a Vec: the length passed is the number of elements
SeqOf(elems) ==
    Val("seq", 0, <<Len(elems) % 65536, Len(elems) \div 65536, 0, 0>>,
        [i \in 1..Len(elems) |-> Kid("", elems[i])])
\* a sequence whose Serialize implementation passes the length len
SeqOfLen(len, elems) ==
    Val("seq", 0, len, [i \in 1..Len(elems) |-> Kid("", elems[i])])
Struct(fields) == Val("struct", 0, <<>>, fields)
Newtype(inner) == Val("newtype", 0, <<>>, <<Kid("", inner)>>)

\* Field names (&'static str).  "long" stands for a name of U16Max + 1 bytes.
Names == {"x", "ab", "long"}

\* name.len()
NameLen(name) ==
    CASE name = "x" -> 1
      [] name = "ab" -> 2
      [] name = "long" -> U16Max + 1
      [] OTHER -> 0

\* name.as_bytes() of the short names
NameBytes(name) ==
    CASE name = "x" -> <<120>>
      [] name = "ab" -> <<97, 98>>
      [] OTHER -> <<>>

----------------------------------------------------------------------------
(* Fixed-width integers.  The model's integers are narrower than u32, so a *)
(* u32 or u64 is kept as its 16-bit limbs, least significant first; a u8   *)
(* or u16 is kept as a number.                                             *)

RECURSIVE Limbs(_, _)
Limbs(v, n) == IF n = 0 THEN <<>> ELSE <<v % 65536>> \o Limbs(v \div 65536, n - 1)

\* v as u8, v as u16, v as u32, v as u64 (two's complement reinterpretation)
AsU8(v) == v % 256
AsU16(v) == v % 65536
AsU32(v) == Limbs(v, 2)

\* v as u32 as u64: the upper half zero instead of the sign
AsU64_ZeroExtended(v) == Limbs(v, 2) \o <<0, 0>>
AsU64(v) == Limbs(v, 4)

\* to_le_bytes of a number of n bytes
RECURSIVE to_le_bytes(_, _)
to_le_bytes(v, n) == IF n = 0 THEN <<>> ELSE <<v % 256>> \o to_le_bytes(v \div 256, n - 1)

\* to_le_bytes of a u32 or u64 kept as limbs
RECURSIVE limbs_to_le_bytes(_)
limbs_to_le_bytes(ls) ==
    IF ls = <<>> THEN <<>> ELSE to_le_bytes(Head(ls), 2) \o limbs_to_le_bytes(Tail(ls))

\* mutf8::utf8_to_mutf8 on text without supplementary characters: NUL becomes
\* the two bytes C0 80, every other byte is copied
RECURSIVE utf8_to_mutf8(_)
utf8_to_mutf8(bytes) ==
    IF bytes = <<>> THEN <<>>
    ELSE (IF Head(bytes) = 0 THEN <<192, 128>> ELSE <<Head(bytes)>>)
         \o utf8_to_mutf8(Tail(bytes))

----------------------------------------------------------------------------
(* FieldInfo *)

FieldInfo_None == [tag |-> "None", name |-> "", size |-> <<>>]
FieldInfo_Root == [tag |-> "Root", name |-> "", size |-> <<>>]
FieldInfo_Named(name) == [tag |-> "Named", name |-> name, size |-> <<>>]
\* size is the Option<i32>: <<>> for None, <<x>> for Some(x)
FieldInfo_InSeq(size) == [tag |-> "InSeq", name |-> "", size |-> size]

\* FieldInfo::write with the Root arm writing the tag
write_RootTagged(fi, tag, out) ==
    CASE fi.tag = "None" ->
            [res |-> "FieldInfoUnset", out |-> out, fi |-> FieldInfo_None]
      [] fi.tag = "Root" ->
            [res |-> "Ok", out |-> out \o <<tag>>, fi |-> FieldInfo_None]
      [] fi.tag = "InSeq" ->
            [res |-> "Ok",
             out |-> IF fi.size # <<>>
                     THEN out \o <<tag>> \o to_le_bytes(fi.size[1], 4) ELSE out,
             fi |-> FieldInfo_None]
      [] fi.tag = "Named" ->
            IF NameLen(fi.name) > U16Max
            THEN [res |-> "StrLen", out |-> out \o <<tag>>, fi |-> fi]
            ELSE [res |-> "Ok",
                  out |-> out \o <<tag>> \o to_le_bytes(NameLen(fi.name), 2),
                  fi |-> FieldInfo_None]

\* FieldInfo::write(&mut self, tag, w): the result, the sink and *self after the
\* call.  An error raised with `?` inside the match returns before the reset of
\* *self; the sink is a Vec, whose write_all never fails.
write(fi, tag, out) ==
    CASE fi.tag = "None" ->
            [res |-> "FieldInfoUnset", out |-> out, fi |-> FieldInfo_None]
      [] fi.tag = "Root" ->
            [res |-> "Ok", out |-> out, fi |-> FieldInfo_None]
      [] fi.tag = "InSeq" ->
            [res |-> "Ok",
             out |-> IF fi.size # <<>>
                     THEN out \o <<tag>> \o to_le_bytes(fi.size[1], 4) ELSE out,
             fi |-> FieldInfo_None]
      [] fi.tag = "Named" ->
            IF NameLen(fi.name) > U16Max
            THEN [res |-> "StrLen", out |-> out \o <<tag>>, fi |-> fi]
            ELSE [res |-> "Ok",
                  out |-> out \o <<tag>> \o to_le_bytes(NameLen(fi.name), 2),
                  fi |-> FieldInfo_None]

----------------------------------------------------------------------------
(* The value trees handed to to_vec *)

\* all sequences over S of length lo..hi
SeqsOver(S, lo, hi) == UNION {[1..n -> S] : n \in lo..hi}

Scalars ==
    {Num("u8", v) : v \in {0, 5, 255}} \cup {Num("i8", v) : v \in {-128, -1, 5}}
    \cup {Num("u16", v) : v \in {1, 65535}} \cup {Num("i16", v) : v \in {-2, 300}}
    \cup {Num("u32", v) : v \in {3, 70000}} \cup {Num("i32", v) : v \in {-1, 3}}
    \cup {Num("u64", v) : v \in {1, 2147483647}} \cup {Num("i64", v) : v \in {-1, 5}}
    \cup {Num("bool", v) : v \in {0, 1}}
    \cup {Num("u128", 7), Num("i128", -7), Unit}
    \cup {Str(<<>>), Str(<<104, 105>>), Str(<<0>>), Char(<<97>>), Bytes(<<1, 2>>)}

\* sequences of one fixed-width kind
ScalarSeqs ==
    {SeqOf(e) : e \in SeqsOver({Num("u8", 1), Num("u8", 2)}, 0, MaxElems)}
    \cup {SeqOf(e) : e \in SeqsOver({Num("i32", 1), Num("i32", 2), Num("i32", 3)}, 0, MaxElems)}

\* sequences of sequences and of compounds
NestedSeqs ==
    {SeqOf(e) : e \in SeqsOver({SeqOf(<<Num("u8", 1)>>), SeqOf(<<>>), Struct(<<>>)}, 1, 2)}

\* what the fields of a compound hold
FieldVals ==
    {Num("u8", 5), Num("i32", -1), Str(<<104, 105>>), Num("u128", 7),
     SeqOf(<<Num("i32", 1), Num("i32", 2), Num("i32", 3)>>), SeqOf(<<Num("u8", 1)>>),
     SeqOf(<<>>), Struct(<<>>), Struct(<<Kid("x", Num("u8", 5))>>),
     Newtype(Num("u8", 5))}

Structs ==
    {Struct(f) : f \in SeqsOver({Kid(n, v) : n \in Names, v \in FieldVals}, 0, MaxFields)}

Newtypes ==
    {Newtype(v) : v \in {Num("u8", 5), Num("i128", -7), Struct(<<>>),
                         SeqOf(<<Num("u8", 1), Num("u8", 2)>>),
                         Newtype(Num("i16", -2))}}

\* signed integers and booleans at the root, in a field, in a sequence and in
\* a sequence held by a field
SignedVals ==
    LET s == {Num("i8", -1), Num("i8", -128), Num("i16", -2), Num("i16", -32768),
              Num("i32", -1), Num("i32", -2147483647 - 1), Num("i64", -1),
              Num("i64", -2147483647 - 1), Num("i64", 5), Num("bool", 0), Num("bool", 1)}
    IN s \cup {Struct(<<Kid("x", v)>>) : v \in s} \cup {SeqOf(<<v>>) : v \in s}
         \cup {Struct(<<Kid("ab", SeqOf(<<v>>))>>) : v \in s}

\* sequences whose Serialize implementation passes a length near or above
\* 2^31: 2^31 - 1, 2^31, 2^32 and 2^48 + 5; at the root, in a field and as the
\* second element of a sequence
LongSeqs ==
    LET lens == {<<65535, 32767, 0, 0>>, <<0, 32768, 0, 0>>, <<0, 0, 1, 0>>, <<5, 0, 0, 1>>}
        ls == {SeqOfLen(l, e) : l \in lens, e \in {<<>>, <<Num("u8", 1)>>}}
    IN ls \cup {Struct(<<Kid(n, l)>>) : n \in {"x", "long"}, l \in ls}
          \cup {SeqOf(<<f, l>>) : f \in {SeqOf(<<>>), SeqOf(<<Num("u8", 1)>>)}, l \in ls}

\* compounds nested in compounds, three levels deep
NestedStructs ==
    LET level1 == {Struct(f) : f \in SeqsOver({Kid(n, v) : n \in {"x", "ab"},
                                                          v \in {Struct(<<>>), Num("u8", 5)}},
                                              0, MaxFields)}
        level2 == {Struct(<<Kid("x", t)>>) : t \in level1}
                  \cup {Struct(<<Kid("ab", t), Kid("x", u)>>) :
                           t \in level1,
                           u \in {Struct(<<>>), Struct(<<Kid("x", Struct(<<>>))>>)}}
    IN level1 \cup level2 \cup {Struct(<<Kid("ab", t), Kid("x", Num("u8", 5))>>) : t \in level2}

Values ==
    Scalars \cup ScalarSeqs \cup NestedSeqs \cup Structs \cup Newtypes
    \cup SignedVals \cup LongSeqs \cup NestedStructs

----------------------------------------------------------------------------
(* The encoder *)

deVars == <<source, input, endianness, target, de_result, decoded>>

\* a pending call of the traversal: "serialize" (value.serialize(serializer)),
\* "field" (SerializeStruct::serialize_field), "element"
\* (SerializeSeq::serialize_element), "end_struct", "end_seq"
Item(op, name, val) == [op |-> op, name |-> name, val |-> val]

Top == Head(stack)

\* a header of format version 5, the one the test of lib.rs expects
Header_TestVersion == <<173, 78, 66, 84, 0, 5, 128>>

\* the bytes Serializer::new writes
Header == <<173, 78, 66, 84, 0, 4, 128>>

\* a call returns Ok(()): the traversal goes on, and to_vec returns
\* Ok(serializer.output) when nothing is pending
Return(rest) ==
    /\ stack' = rest
    /\ IF rest = <<>>
       THEN pc' = "encoded" /\ result' = "Ok"
       ELSE UNCHANGED <<pc, result>>

\* a call returns Err(err), or panics: `?` hands it up to to_vec's caller
Abort(err) ==
    /\ stack' = <<>>
    /\ pc' = "encoded"
    /\ result' = err

\* self.field_info.write(tag, &mut self.output)?; self.output.write_all(payload)?; Ok(())
Emit(tag, payload) ==
    LET w == write(field_info, tag, output) IN
    /\ field_info' = w.fi
    /\ IF w.res = "Ok"
       THEN output' = w.out \o payload /\ Return(Tail(stack))
       ELSE output' = w.out /\ Abort(w.res)

serialize_u8(v) == Emit(1, <<v>>)
serialize_u16(v) == Emit(2, to_le_bytes(v, 2))
serialize_u32(v) == Emit(3, limbs_to_le_bytes(v))
serialize_u64(v) == Emit(4, limbs_to_le_bytes(v))
serialize_bool(v) == serialize_u8(IF v = 1 THEN 1 ELSE 0)
serialize_i8(v) == serialize_u8(AsU8(v))
serialize_i16(v) == serialize_u16(AsU16(v))
serialize_i32(v) == serialize_u32(AsU32(v))
serialize_i64(v) == serialize_u64(AsU64(v))
serialize_bytes(v) == Emit(7, v)
serialize_str(v) == Emit(8, utf8_to_mutf8(v))
serialize_char(v) == serialize_str(v)
\* todo!()
serialize_u128(v) == Abort("panic") /\ UNCHANGED <<output, field_info>>
serialize_i128(v) == serialize_u128(v)
\* todo!()
serialize_unit == Abort("panic") /\ UNCHANGED <<output, field_info>>

\* len.try_into() of a usize as u32 (the upper 32 bits dropped), kept as i32
\* when it is below 2^31
try_into_i32_Truncating(len) ==
    IF len[2] <= I32Max \div 65536 THEN <<len[1] + 65536 * len[2]>> ELSE <<>>

\* len.try_into() of a usize (four 16-bit limbs) to i32: <<x>> for Ok(x), <<>>
\* for Err
try_into_i32(len) ==
    IF len[3] = 0 /\ len[4] = 0 /\ len[2] <= I32Max \div 65536
    THEN <<len[1] + 65536 * len[2]>>
    ELSE <<>>

\* serialize_seq(Some(len)), followed by what the Serialize implementation of
\* the sequence does with the SerializeSeq it got: an element call per element,
\* then end
serialize_seq(val) ==
    LET w == write(field_info, 9, output)
        len == try_into_i32(val.bytes)
    IN /\ output' = w.out
       /\ IF w.res # "Ok"
          THEN field_info' = w.fi /\ Abort(w.res)
          ELSE IF len = <<>>
          THEN field_info' = w.fi /\ Abort("SeqLen")
          ELSE /\ field_info' = FieldInfo_InSeq(len)
               /\ Return([i \in 1..Len(val.kids) |->
                             Item("element", "", val.kids[i].val)]
                         \o <<Item("end_seq", "", NoValue)>> \o Tail(stack))

\* serialize_struct(name, len), followed by what the Serialize implementation
\* does with the SerializeStruct it got: a field call per field, then end
serialize_struct(val) ==
    LET w == write(field_info, 10, output) IN
    /\ output' = w.out
    /\ field_info' = w.fi
    /\ IF w.res # "Ok"
       THEN Abort(w.res)
       ELSE Return([i \in 1..Len(val.kids) |->
                        Item("field", val.kids[i].name, val.kids[i].val)]
                   \o <<Item("end_struct", "", NoValue)>> \o Tail(stack))

\* value.serialize(self)
serialize_newtype_struct(val) ==
    /\ stack' = <<Item("serialize", "", val.kids[1].val)>> \o Tail(stack)
    /\ UNCHANGED <<pc, result, output, field_info>>

\* The Serialize implementation of the value on top of the pending calls asks
\* for the method of its kind
Serializing(kind) ==
    /\ pc = "serializing"
    /\ Top.op = "serialize"
    /\ Top.val.kind = kind
    /\ UNCHANGED <<value, deVars>>

\* to_vec(value): Serializer::new(Vec::new())?, then value.serialize(&mut serializer)
to_vec ==
    /\ pc = "start"
    /\ \E v \in Values :
        /\ value' = v
        /\ stack' = <<Item("serialize", "", v)>>
    /\ output' = Header
    /\ field_info' = FieldInfo_Root
    /\ pc' = "serializing"
    /\ UNCHANGED <<result, deVars>>

SerializeBool == Serializing("bool") /\ serialize_bool(Top.val.v)
SerializeChar == Serializing("char") /\ serialize_char(Top.val.bytes)
SerializeI8 == Serializing("i8") /\ serialize_i8(Top.val.v)
SerializeI16 == Serializing("i16") /\ serialize_i16(Top.val.v)
SerializeI32 == Serializing("i32") /\ serialize_i32(Top.val.v)
SerializeI64 == Serializing("i64") /\ serialize_i64(Top.val.v)
SerializeI128 == Serializing("i128") /\ serialize_i128(Top.val.v)
SerializeU8 == Serializing("u8") /\ serialize_u8(Top.val.v)
SerializeU16 == Serializing("u16") /\ serialize_u16(Top.val.v)
SerializeU32 == Serializing("u32") /\ serialize_u32(Limbs(Top.val.v, 2))
SerializeU64 == Serializing("u64") /\ serialize_u64(Limbs(Top.val.v, 4))
SerializeU128 == Serializing("u128") /\ serialize_u128(Top.val.v)
SerializeBytes == Serializing("bytes") /\ serialize_bytes(Top.val.bytes)
SerializeStr == Serializing("str") /\ serialize_str(Top.val.bytes)
SerializeUnit == Serializing("unit") /\ serialize_unit
SerializeNewtypeStruct == Serializing("newtype") /\ serialize_newtype_struct(Top.val)
SerializeSeq == Serializing("seq") /\ serialize_seq(Top.val)
SerializeStruct == Serializing("struct") /\ serialize_struct(Top.val)

\* SerializeSeq::serialize_element: value.serialize(&mut **self)
SerializeSeq_serialize_element ==
    /\ pc = "serializing"
    /\ Top.op = "element"
    /\ stack' = <<Item("serialize", "", Top.val)>> \o Tail(stack)
    /\ UNCHANGED <<pc, value, output, field_info, result, deVars>>

\* SerializeSeq::end: Ok(())
SerializeSeq_end ==
    /\ pc = "serializing"
    /\ Top.op = "end_seq"
    /\ Return(Tail(stack))
    /\ UNCHANGED <<value, output, field_info, deVars>>

\* SerializeStruct::serialize_field: self.field_info = FieldInfo::Named(key);
\* value.serialize(&mut **self)
SerializeStruct_serialize_field ==
    /\ pc = "serializing"
    /\ Top.op = "field"
    /\ field_info' = FieldInfo_Named(Top.name)
    /\ stack' = <<Item("serialize", "", Top.val)>> \o Tail(stack)
    /\ UNCHANGED <<pc, value, output, result, deVars>>

\* SerializeStruct::end writing no terminator
SerializeStruct_end_NoTerminator ==
    /\ pc = "serializing"
    /\ Top.op = "end_struct"
    /\ Return(Tail(stack))
    /\ UNCHANGED <<value, output, field_info, deVars>>

\* SerializeStruct::end: self.output.write_all(&[0])?; Ok(())
SerializeStruct_end ==
    /\ pc = "serializing"
    /\ Top.op = "end_struct"
    /\ output' = output \o <<0>>
    /\ Return(Tail(stack))
    /\ UNCHANGED <<value, field_info, deVars>>

----------------------------------------------------------------------------
(* The decoder *)

enVars == <<value, stack, output, field_info, result>>

\* the 6 bytes Deserializer::new compares the stream with
Magic == <<173, 78, 66, 84, 0, 4>>

\* the high bit of a byte: b & 0x80 != 0
HighBit(b) == (b \div 128) % 2 = 1

\* Deserializer::new comparing the 4 magic bytes only, not the version
Deserializer_new_MagicOnly(bytes) ==
    IF Len(bytes) < HeaderLen
    THEN [res |-> "Io", input |-> bytes, endianness |-> FALSE]
    ELSE IF SubSeq(bytes, 1, 4) # SubSeq(Magic, 1, 4)
    THEN [res |-> "InvalidHeader", input |-> SubSeq(bytes, HeaderLen + 1, Len(bytes)),
          endianness |-> FALSE]
    ELSE [res |-> "Ok", input |-> SubSeq(bytes, HeaderLen + 1, Len(bytes)),
          endianness |-> HighBit(bytes[HeaderLen])]

\* Deserializer::new(input): read_exact of 7 bytes fails with an io::Error on
\* a shorter stream (`?` makes it Error::Io); then the first 6 bytes are compared
Deserializer_new(bytes) ==
    IF Len(bytes) < HeaderLen
    THEN [res |-> "Io", input |-> bytes, endianness |-> FALSE]
    ELSE IF SubSeq(bytes, 1, 6) # Magic
    THEN [res |-> "InvalidHeader", input |-> SubSeq(bytes, HeaderLen + 1, Len(bytes)),
          endianness |-> FALSE]
    ELSE [res |-> "Ok", input |-> SubSeq(bytes, HeaderLen + 1, Len(bytes)),
          endianness |-> HighBit(bytes[HeaderLen])]

\* from_reader(input): Deserializer::new(input)?, then T::deserialize, which
\* asks the Deserializer for the kinds of ty in turn
from_reader(bytes, ty) ==
    LET d == Deserializer_new(bytes) IN
    /\ source' = bytes
    /\ input' = d.input
    /\ endianness' = d.endianness
    /\ decoded' = NoValue
    /\ IF d.res = "Ok"
       THEN pc' = "deserializing" /\ target' = ty /\ de_result' = "none"
       ELSE pc' = "decoded" /\ target' = <<>> /\ de_result' = d.res

\* the methods T::deserialize calls for a value tree of the shape of val
RECURSIVE TypeOf(_)
TypeOf(val) ==
    CASE val.kind = "newtype" -> <<"newtype_struct">> \o TypeOf(val.kids[1].val)
      [] val.kind = "str" -> <<"string">>
      [] val.kind = "bytes" -> <<"byte_buf">>
      [] OTHER -> <<val.kind>>

\* the target types of a caller that decodes a stream of its own
Types ==
    {<<"struct">>, <<"seq">>, <<"u8">>, <<"i32">>, <<"bool">>, <<"char">>, <<"string">>,
     <<"byte_buf">>, <<"unit_struct">>, <<"newtype_struct", "u8">>,
     <<"newtype_struct", "struct">>}

\* the byte streams a caller hands to from_slice: the prefixes of a header,
\* good or bad, followed by up to MaxTail bytes
Prefixes(s) == {SubSeq(s, 1, n) : n \in 0..Len(s)}
Streams ==
    UNION {Prefixes(h \o t) :
             h \in {Header, <<173, 78, 66, 84, 0, 4, 0>>, <<173, 78, 66, 84, 0, 4, 127>>,
                    <<173, 78, 66, 84, 0, 4, 255>>, <<173, 78, 66, 84, 0, 5, 128>>,
                    <<172, 78, 66, 84, 0, 4, 128>>, <<173, 78, 66, 84, 1, 4, 128>>},
             t \in SeqsOver({0, 1, 5, 10}, 0, MaxTail)}

\* from_slice on the bytes to_vec returned
from_slice_encoded ==
    /\ pc = "encoded"
    /\ result = "Ok"
    /\ from_reader(output, TypeOf(value))
    /\ UNCHANGED enVars

\* from_slice on a byte stream of the caller
from_slice ==
    /\ pc = "start"
    /\ \E bytes \in Streams, ty \in Types : from_reader(bytes, ty)
    /\ UNCHANGED enVars

\* the methods of the Deserializer whose body is todo!()
TodoKinds ==
    {"any", "bool", "i8", "i16", "i32", "i64", "i128", "u8", "u16", "u32", "u64", "u128",
     "f32", "f64", "str", "bytes", "option", "unit", "seq", "tuple", "tuple_struct",
     "map", "struct", "enum", "identifier", "ignored_any"}

\* deserialize_char, deserialize_string -> deserialize_str; deserialize_byte_buf
\* -> deserialize_bytes; deserialize_unit_struct -> deserialize_unit
Forwards(kind) ==
    CASE kind \in {"char", "string"} -> "str"
      [] kind = "byte_buf" -> "bytes"
      [] kind = "unit_struct" -> "unit"
      [] OTHER -> kind

Panic ==
    /\ pc' = "decoded"
    /\ de_result' = "panic"
    /\ target' = <<>>
    /\ UNCHANGED <<source, input, endianness, decoded, enVars>>

\* deserialize_<kind>: todo!()
deserialize_todo ==
    /\ pc = "deserializing"
    /\ Head(target) \in TodoKinds
    /\ Panic

\* a method that hands over to another method of the Deserializer
deserialize_forward ==
    /\ pc = "deserializing"
    /\ Forwards(Head(target)) # Head(target)
    /\ Forwards(Head(target)) \in TodoKinds
    /\ Panic

\* deserialize_newtype_struct: visitor.visit_newtype_struct(self), which asks
\* for the inner type
deserialize_newtype_struct ==
    /\ pc = "deserializing"
    /\ Head(target) = "newtype_struct"
    /\ target' = Tail(target)
    /\ UNCHANGED <<pc, source, input, endianness, de_result, decoded, enVars>>

----------------------------------------------------------------------------

Init ==
    /\ pc = "start"
    /\ value = NoValue
    /\ stack = <<>>
    /\ output = <<>>
    /\ field_info = FieldInfo_None
    /\ result = "none"
    /\ source = <<>>
    /\ input = <<>>
    /\ endianness = FALSE
    /\ target = <<>>
    /\ de_result = "none"
    /\ decoded = NoValue

Next ==
    \/ to_vec
    \/ SerializeBool \/ SerializeChar
    \/ SerializeI8 \/ SerializeI16 \/ SerializeI32 \/ SerializeI64 \/ SerializeI128
    \/ SerializeU8 \/ SerializeU16 \/ SerializeU32 \/ SerializeU64 \/ SerializeU128
    \/ SerializeBytes \/ SerializeStr \/ SerializeUnit
    \/ SerializeNewtypeStruct \/ SerializeSeq \/ SerializeStruct
    \/ SerializeSeq_serialize_element \/ SerializeSeq_end
    \/ SerializeStruct_serialize_field \/ SerializeStruct_end
    \/ from_slice_encoded \/ from_slice
    \/ deserialize_todo \/ deserialize_forward \/ deserialize_newtype_struct

Spec == Init /\ [][Next]_vars

----------------------------------------------------------------------------
(* Properties *)

EmptyRecord == Struct(<<>>)

C2_TestEmptyCompound ==
    (pc = "encoded" /\ value = EmptyRecord)
        => (result = "Ok" /\ output = <<173, 78, 66, 84, 0, 5, 128, 10, 0, 0, 0, 0>>)

\* the tag and the payload of a fixed-width scalar on the wire
WireTag(val) == IF val.kind = "u8" THEN 1 ELSE 3
WirePayload(val) == IF val.kind = "u8" THEN <<val.v>> ELSE limbs_to_le_bytes(AsU32(val.v))

\* tag(1) | name_len(2, LE) | name_bytes(name_len) | value_payload, field after field
RECURSIVE FramedFields(_)
FramedFields(kids) ==
    IF kids = <<>> THEN <<>>
    ELSE <<WireTag(kids[1].val)>> \o to_le_bytes(NameLen(kids[1].name), 2)
         \o NameBytes(kids[1].name) \o WirePayload(kids[1].val)
         \o FramedFields(Tail(kids))

\* a compound of one or more u8 and i32 fields with names that fit a u16
FlatRecord(val) ==
    /\ val.kind = "struct"
    /\ val.kids # <<>>
    /\ \A i \in 1..Len(val.kids) :
        /\ NameLen(val.kids[i].name) <= U16Max
        /\ val.kids[i].val.kind \in {"u8", "i32"}
        /\ val.kids[i].val.kids = <<>>

\* C3: every named field of a compound is written as its tag, the 2-byte
\* little-endian length of its name, the bytes of its name and its payload, and
\* the 0x00 terminator follows the last field ({x: 5u8} gives 01 01 00 78 05 00).
C3_FieldFraming ==
    (pc = "encoded" /\ FlatRecord(value))
        => (result = "Ok" /\ output = Header \o FramedFields(value.kids) \o <<0>>)

\* block b is in s at position p
IsAt(b, s, p) == p + Len(b) - 1 <= Len(s) /\ SubSeq(s, p, p + Len(b) - 1) = b

\* s holds block a and, somewhere after it, block b
EmitsInOrder(a, b, s) ==
    \E p \in 1..Len(s), q \in 1..Len(s) : IsAt(a, s, p) /\ q >= p + Len(a) /\ IsAt(b, s, q)

RECURSIVE Payloads(_)
Payloads(kids) ==
    IF kids = <<>> THEN <<>> ELSE WirePayload(kids[1].val) \o Payloads(Tail(kids))

\* a sequence of n >= 1 scalars of one fixed-width kind (u8 or i32)
ScalarSeq(val) ==
    /\ val.kind = "seq"
    /\ val.kids # <<>>
    /\ \A i \in 1..Len(val.kids) :
        /\ val.kids[i].val.kind \in {"u8", "i32"}
        /\ val.kids[i].val.kind = val.kids[1].val.kind

\* element tag, count as 4 bytes little-endian, then the payloads
SeqBody(val) ==
    <<WireTag(val.kids[1].val)>> \o to_le_bytes(Len(val.kids), 4) \o Payloads(val.kids)

\* C4: encoding a sequence of n >= 1 fixed-width scalars (here as the only
\* field of the root record) succeeds and emits the tag 0x09 and then, once,
\* element tag and count, followed by the n payloads and nothing else per element.
C4_SequenceFraming ==
    (/\ pc = "encoded"
     /\ value.kind = "struct"
     /\ Len(value.kids) = 1
     /\ NameLen(value.kids[1].name) <= U16Max
     /\ ScalarSeq(value.kids[1].val))
        => (/\ result = "Ok"
            /\ EmitsInOrder(<<9>>, SeqBody(value.kids[1].val) \o <<0>>,
                            SubSeq(output, HeaderLen + 1, Len(output))))

\* C5: a field whose name is longer than 65535 bytes fails with StrLen and
\* the step that fails leaves the sink as it was before the field was started
\* (serialize_field itself writes nothing).
C5_OversizedNameAtomic ==
    [][(result' = "StrLen" /\ result # "StrLen") => output' = output]_vars

Decoding == pc \in {"deserializing", "decoded"}

\* C6 as stated: any stream whose first 6 bytes are not AD 4E 42 54 00 04,
\* streams of fewer than 7 bytes included, is rejected with InvalidHeader.
C6_Original ==
    (Decoding /\ (Len(source) < 6 \/ SubSeq(source, 1, 6) # Magic))
        => (pc = "decoded" /\ de_result = "InvalidHeader" /\ decoded = NoValue)

\* C6: a stream of at least 7 bytes whose first 6 bytes are not
\* AD 4E 42 54 00 04 is rejected with InvalidHeader whatever follows, with the
\* 7 header bytes read and no value; a stream of fewer than 7 bytes is rejected
\* with Io whatever its bytes are.
C6_HeaderRejection ==
    Decoding =>
        /\ (Len(source) >= HeaderLen /\ SubSeq(source, 1, 6) # Magic)
            => (/\ pc = "decoded"
                /\ de_result = "InvalidHeader"
                /\ decoded = NoValue
                /\ input = SubSeq(source, HeaderLen + 1, Len(source)))
        /\ Len(source) < HeaderLen
            => (pc = "decoded" /\ de_result = "Io" /\ decoded = NoValue)

C6_Witness ==
    /\ pc = "decoded"
    /\ Len(source) > HeaderLen
    /\ SubSeq(source, 1, 4) = SubSeq(Magic, 1, 4)
    /\ SubSeq(source, 1, 6) # Magic
    /\ de_result = "InvalidHeader"

\* the kinds the encoder has a framing for
RECURSIVE Supported(_)
Supported(val) ==
    /\ val.kind \notin {"none", "unit", "u128", "i128"}
    /\ \A i \in 1..Len(val.kids) : Supported(val.kids[i].val)

\* value trees of fixed-width integers, booleans, strings, sequences and
\* compounds, with names that fit a u16
RECURSIVE RoundTrips(_)
RoundTrips(val) ==
    /\ val.kind \in {"u8", "i8", "u16", "i16", "u32", "i32", "u64", "i64", "bool",
                     "str", "seq", "struct"}
    /\ \A i \in 1..Len(val.kids) :
        NameLen(val.kids[i].name) <= U16Max /\ RoundTrips(val.kids[i].val)

\* C7: from_slice(to_vec(V)) returns Ok with a value equal to V for every
\* value tree V of the supported kinds.
C7_RoundTrip ==
    (pc = "decoded" /\ RoundTrips(value))
        => (result = "Ok" /\ de_result = "Ok" /\ decoded = value)

\* C8: a valid 7-byte header followed by one tag byte and no payload is
\* answered with Error::Eof, never with a panic or a value.
C8_TruncatedInput ==
    (/\ pc = "decoded"
     /\ Len(source) = HeaderLen + 1
     /\ SubSeq(source, 1, 6) = Magic
     /\ source[HeaderLen + 1] \in 1..10)
        => de_result = "Eof"

RECURSIVE Has128(_)
Has128(val) ==
    \/ val.kind \in {"u128", "i128"}
    \/ \E i \in 1..Len(val.kids) : Has128(val.kids[i].val)

\* C9: encoding a value tree that holds a 128-bit integer returns an error
\* value to the caller: it neither succeeds nor panics.
C9_Int128Fails ==
    (pc = "encoded" /\ Has128(value)) => result \notin {"Ok", "panic", "none"}

\* C10: for a value tree of supported kinds the Field Context is never
\* discharged in the Unset state: to_vec never returns FieldInfoUnset.
C10_NeverUnset ==
    Supported(value) => result # "FieldInfoUnset"

\* the tag the Serializer method of a kind passes to FieldInfo::write
MethodTag(kind) ==
    CASE kind \in {"bool", "i8", "u8"} -> 1
      [] kind \in {"i16", "u16"} -> 2
      [] kind \in {"i32", "u32"} -> 3
      [] kind \in {"i64", "u64"} -> 4
      [] kind = "bytes" -> 7
      [] kind \in {"str", "char"} -> 8
      [] kind = "seq" -> 9
      [] kind = "struct" -> 10

\* a method that calls FieldInfo::write is about to run
AboutToWrite ==
    /\ pc = "serializing"
    /\ Top.op = "serialize"
    /\ Top.val.kind \in {"bool", "i8", "u8", "i16", "u16", "i32", "u32", "i64", "u64",
                         "bytes", "str", "char", "seq", "struct"}

\* C11: after every call of FieldInfo::write, in whatever state it is called
\* and whether it returns Ok or an error, the Field Context is FieldInfo::None.
C11_ResetAfterWrite ==
    AboutToWrite => write(field_info, MethodTag(Top.val.kind), output).fi = FieldInfo_None

\* every sequence of the tree is a Vec: the length passed to serialize_seq is
\* the number of its elements
RECURSIVE AllVecs(_)
AllVecs(val) ==
    /\ val.kind = "seq" => val = SeqOf([i \in 1..Len(val.kids) |-> val.kids[i].val])
    /\ \A i \in 1..Len(val.kids) : AllVecs(val.kids[i].val)

\* C12: every sequence written, a sequence of length 0 included, is framed
\* with its element tag and its count: when a sequence ends, the obligation
\* InSeq(Some(count)) it set has been discharged, by its own first element, and
\* is not left for a value outside the sequence (or for nobody).
C12_SequenceCountWritten ==
    (pc = "serializing" /\ Top.op = "end_seq" /\ AllVecs(value))
        => ~(field_info.tag = "InSeq" /\ field_info.size # <<>>)

\* a tree of nested compounds: a struct whose fields, under names that fit a
\* u16, are u8 values or such structs
RECURSIVE CompoundTree(_)
CompoundTree(val) ==
    /\ val.kind = "struct"
    /\ \A i \in 1..Len(val.kids) :
        /\ NameLen(val.kids[i].name) <= U16Max
        /\ \/ val.kids[i].val.kind = "u8"
           \/ CompoundTree(val.kids[i].val)

\* the shape of a tree of compounds: a node per compound, a leaf per u8 field
Leaf == [node |-> FALSE, kids |-> <<>>]
Node(kids) == [node |-> TRUE, kids |-> kids]

RECURSIVE Skeleton(_)
Skeleton(val) ==
    IF val.kind = "struct"
    THEN Node([i \in 1..Len(val.kids) |-> Skeleton(val.kids[i].val)])
    ELSE Leaf

RECURSIVE Depth(_)
Depth(sk) ==
    IF sk.kids = <<>> THEN 1
    ELSE 1 + Depth(sk.kids[CHOOSE i \in 1..Len(sk.kids) :
                             \A j \in 1..Len(sk.kids) :
                                Depth(sk.kids[j]) <= Depth(sk.kids[i])])

\* Reads the fields of one compound off the bytes b up to and including its
\* 0x00 terminator: tag 0x01 is followed by 2 length bytes and 1 payload byte,
\* tag 0x0A by 2 length bytes and the fields of the nested compound.  ok tells
\* whether the terminator was found, kids is the shape read, rest what follows.
RECURSIVE ReadFields(_)
ReadFields(b) ==
    IF b = <<>> THEN [ok |-> FALSE, kids |-> <<>>, rest |-> <<>>]
    ELSE IF b[1] = 0 THEN [ok |-> TRUE, kids |-> <<>>, rest |-> Tail(b)]
    ELSE IF b[1] = 1 /\ Len(b) >= 4
    THEN LET r == ReadFields(SubSeq(b, 5, Len(b)))
         IN [ok |-> r.ok, kids |-> <<Leaf>> \o r.kids, rest |-> r.rest]
    ELSE IF b[1] = 10 /\ Len(b) >= 3
    THEN LET inner == ReadFields(SubSeq(b, 4, Len(b)))
             r == ReadFields(inner.rest)
         IN [ok |-> inner.ok /\ r.ok, kids |-> <<Node(inner.kids)>> \o r.kids,
             rest |-> r.rest]
    ELSE [ok |-> FALSE, kids |-> <<>>, rest |-> <<>>]

RECURSIVE Base256(_, _)
Base256(v, n) ==
    IF n = 0 THEN <<>> ELSE <<v - 256 * (v \div 256)>> \o Base256(v \div 256, n - 1)

\* the little-endian bytes of the unsigned n-byte integer v mod 2^(8n): the
\* digits of v for v >= 0, the complemented digits of -v - 1 for v < 0
UnsignedBytes(v, n) ==
    IF v >= 0 THEN Base256(v, n) ELSE [i \in 1..n |-> 255 - Base256(-(v + 1), n)[i]]

\* the width in bytes of a signed kind (bool: 1) and the tag of the unsigned
\* kind of that width
SignedWidth(kind) ==
    CASE kind \in {"i8", "bool"} -> 1 [] kind = "i16" -> 2 [] kind = "i32" -> 4
      [] kind = "i64" -> 8
UnsignedTag(n) == CASE n = 1 -> 1 [] n = 2 -> 2 [] n = 4 -> 3 [] n = 8 -> 4

\* C14: in every Field Context state, encoding a signed integer v of width w
\* writes what encoding the unsigned integer v mod 2^w of that width writes:
\* the discharge with tag 0x01/0x02/0x03/0x04 and then the w/8 little-endian
\* bytes of v mod 2^w; a boolean is written as the 8-bit value 0 or 1.
C14_SignedAsUnsigned ==
    [][(/\ pc = "serializing"
        /\ Top.op = "serialize"
        /\ Top.val.kind \in {"i8", "i16", "i32", "i64", "bool"})
        => LET n == SignedWidth(Top.val.kind)
               w == write(field_info, UnsignedTag(n), output)
           IN IF w.res = "Ok"
              THEN output' = w.out \o UnsignedBytes(Top.val.v, n)
              ELSE output' = w.out /\ result' = w.res]_vars

C14_Witness ==
    /\ pc = "encoded"
    /\ value = Struct(<<Kid("x", Num("i64", -1))>>)
    /\ output = Header \o <<4, 1, 0, 255, 255, 255, 255, 255, 255, 255, 255, 0>>

\* a sequence whose length does not fit an i32: 2^31 or more
Oversized(val) ==
    val.kind = "seq" /\ (val.bytes[4] # 0 \/ val.bytes[3] # 0 \/ val.bytes[2] >= 32768)

\* serialize_seq is about to run
StartingSeq == pc = "serializing" /\ Top.op = "serialize" /\ Top.val.kind = "seq"

\* C15 as stated: starting a sequence of a length above 2^31 - 1 fails with
\* SeqLen and no element of it is encoded; every length up to 2^31 - 1 is accepted.
C15_Original ==
    [][StartingSeq =>
        IF Oversized(Top.val)
        THEN pc' = "encoded" /\ result' = "SeqLen" /\ stack' = <<>>
        ELSE result' # "SeqLen"]_vars

\* C15: starting a sequence of a length above 2^31 - 1 makes encoding fail,
\* and no element of it is encoded: with SeqLen, unless the discharge of the
\* sequence's tag, which comes first, has failed already (FieldInfoUnset in the
\* Unset state, StrLen under a name of more than 65535 bytes).  Every length
\* up to 2^31 - 1 passes the length check and becomes the pending count.
C15_SeqLenOverflow ==
    [][StartingSeq =>
        LET early == CASE field_info.tag = "None" -> "FieldInfoUnset"
                       [] field_info.tag = "Named" /\ NameLen(field_info.name) > U16Max
                            -> "StrLen"
                       [] OTHER -> "Ok"
        IN IF Oversized(Top.val)
           THEN /\ pc' = "encoded"
                /\ stack' = <<>>
                /\ result' = IF early = "Ok" THEN "SeqLen" ELSE early
           ELSE /\ result' # "SeqLen"
                /\ early = "Ok"
                    => /\ field_info'.tag = "InSeq"
                       /\ Len(field_info'.size) = 1
                       /\ UnsignedBytes(field_info'.size[1], 4)
                            = to_le_bytes(Top.val.bytes[1], 2)
                              \o to_le_bytes(Top.val.bytes[2], 2)]_vars

C15_Witness ==
    /\ pc = "encoded"
    /\ result = "SeqLen"
    /\ value = SeqOfLen(<<0, 0, 1, 0>>, <<Num("u8", 1)>>)
    /\ output = Header

\* the encoder has been constructed
Encoding == pc \in {"serializing", "encoded"} \/ value # NoValue

====
